---- MODULE Spec2Model ----
\* A model of the MongoDB-backed gorilla/sessions store of src/mongostore.go:
\* NewMongoStore, Get, New, Save, MaxAge, load, upsert and delete, together with
\* the collaborators they call (securecookie codecs, the token transport, the
\* qmgo collection and the per-request session registry).
EXTENDS Integers, Sequences, FiniteSets, TLC

\* ---------------------------------------------------------------- bounds
\* The clock runs from 0 to MaxTime (seconds).
MaxTime == 2
\* primitive.NewObjectID() is called at most MaxIds times.
MaxIds == 2
\* At most MaxSessions session objects are created for one request.
MaxSessions == 2
\* At most MaxCalls calls of Get, New, Save and MaxAge are made.
MaxCalls == 4

\* ---------------------------------------------------------------- inputs
Reqs == {"r1", "r2"}
Names == {"sid"}
\* The max-age values given to NewMongoStore and to MaxAge.
Ages == {0, 1}
\* The key pairs given to NewMongoStore, in order (first = newest).
KeyPairs == <<"k1", "k2">>

\* ---------------------------------------------------------------- errors
NoErr == "nil"
ErrInvalidId == "mongo-store: invalid session id"
ErrInvalidModified == "mongo-store: invalid modified value"
ErrNoCookie == "http: named cookie not present"
ErrDecode == "securecookie: the value is not valid"
ErrExpired == "securecookie: expired timestamp"
ErrEncode == "securecookie: gob: type not registered"
ErrNoCodecs == "securecookie: no codecs provided"
ErrNoSuchDocuments == "mongo: no documents in result"
ErrDuplicateKey == "mongo: E11000 duplicate key error"
ErrStorage == "mongo: server selection error"

\* ---------------------------------------------------------------- object ids
\* primitive.ObjectID: the n-th identifier NewObjectID mints is the number n;
\* Hex() and ObjectIDFromHex convert between it and its 24-digit hex string;
\* for any other string ObjectIDFromHex yields NilObjectID, here 0.
HexTab ==
  << "65a000000000000000000001", "65a000000000000000000002",
     "65a000000000000000000003", "65a000000000000000000004",
     "65a000000000000000000005", "65a000000000000000000006" >>

Hex(oid) == HexTab[oid]

IsValidObjectID(s) == \E n \in DOMAIN HexTab : HexTab[n] = s

ObjectIDFromHex(s) ==
  IF IsValidObjectID(s) THEN CHOOSE n \in DOMAIN HexTab : HexTab[n] = s ELSE 0

\* An id string that is no ObjectID hex (what another store sharing the key
\* pairs puts into its tokens).
BadId == "not-an-object-id"

\* ---------------------------------------------------------------- values
\* session.Values is map[interface{}]interface{}: a function from keys to
\* typed values [typ, v].
Str(n) == [typ |-> "string", v |-> n]
TimeVal(t) == [typ |-> "time.Time", v |-> t]
Chan == [typ |-> "chan", v |-> 0]

Alice == Str(1)
EmptyValues == [k \in {} |-> Alice]

\* The values a handler leaves in its session before it saves it: a user, a
\* "modified" time of its own, a "modified" that is no time.Time, and a value
\* gob cannot encode.
CallerValues ==
  { [k \in {"user"} |-> Alice],
    [k \in {"modified"} |-> TimeVal(1)],
    [k \in {"modified"} |-> Str(1)],
    [k \in {"user"} |-> Chan] }

\* gob serialisation of a values map: the set of its entries. A value of a type
\* gob cannot encode makes the encoding fail.
GobEncodable(values) ==
  \A k \in DOMAIN values : values[k].typ \in {"string", "time.Time"}

Serialize(values) == { <<k, values[k].typ, values[k].v>> : k \in DOMAIN values }

Deserialize(blob) ==
  [ k \in { e[1] : e \in blob } |->
      LET e == CHOOSE x \in blob : x[1] = k IN [typ |-> e[2], v |-> e[3]] ]

\* ---------------------------------------------------------------- securecookie
\* A codec is [key, maxAge]; an encoded value is [kind, name, key, ts, val]:
\* authenticated under key for the cookie name, stamped with the encoding time.
NoToken == [kind |-> "none", name |-> "", key |-> "", ts |-> 0, val |-> ""]
EmptyToken == [kind |-> "empty", name |-> "", key |-> "", ts |-> 0, val |-> ""]
Signed(name, key, ts, val) ==
  [kind |-> "signed", name |-> name, key |-> key, ts |-> ts, val |-> val]

\* securecookie.CodecsFromPairs
CodecsFromPairs(pairs) == [i \in DOMAIN pairs |-> [key |-> pairs[i], maxAge |-> 0]]

\* SecureCookie.Decode: MAC over name and value, then the timestamp range.
CodecDecodeErr(codec, name, enc, t) ==
  IF enc.kind # "signed" \/ enc.key # codec.key \/ enc.name # name THEN ErrDecode
  ELSE IF codec.maxAge # 0 /\ enc.ts < t - codec.maxAge THEN ErrExpired
  ELSE NoErr

\* securecookie.DecodeMulti: the first codec that decodes wins.
DecodeMultiErr(name, enc, codecs, t) ==
  IF Len(codecs) = 0 THEN ErrNoCodecs
  ELSE IF \E i \in DOMAIN codecs : CodecDecodeErr(codecs[i], name, enc, t) = NoErr
       THEN NoErr
       ELSE CodecDecodeErr(codecs[Len(codecs)], name, enc, t)

\* securecookie.EncodeMulti: the first codec encodes.
EncodeMulti(name, val, codecs, t) == Signed(name, codecs[1].key, t, val)

\* A token that fails authentication under every key of the store (forged,
\* tampered or malformed), and a validly authenticated token of another store
\* that shares the key pairs and whose value is no ObjectID hex.
Forged(name) == Signed(name, "unknown-key", 0, BadId)
Foreign(name) == Signed(name, KeyPairs[1], 0, BadId)

\* ---------------------------------------------------------------- state
VARIABLES
  store,      \* *MongoStore: [nil, Options, Codecs]
  index,      \* the index of the collection on "modified": [exists, expireAfter, sparse, unique]
  coll,       \* the collection: ObjectID -> [Data, Modified] (Session documents by _id)
  now,        \* time.Now(), in seconds
  nextOid,    \* the next identifier primitive.NewObjectID() mints
  issued,     \* cookie name -> the token the client holds (the last one a response carried)
  cookie,     \* per request: cookie name -> token the request carries
  sess,       \* per request: the *sessions.Session objects created for it, by address
  reg,        \* per request: sessions.Registry, name -> [s, e] (s = 0: not registered)
  resp,       \* per request: cookie name -> token last written to the response
  call,       \* per request: the call in progress and its locals
  maxAgeCall, \* the last MaxAge call: [codec, age] (codec = 0: it has returned)
  calls,      \* the number of calls of Get, New, Save and MaxAge made so far
  last,       \* the call that returned in the last step: [op, r, s, err, made, wrote, db]
  hist        \* history: what the claims need to remember of earlier calls

vars == << store, index, coll, now, nextOid, issued, cookie, sess, reg, resp, call,
           maxAgeCall, calls, last, hist >>

NoData == [kind |-> "none", name |-> "", key |-> "", ts |-> 0, val |-> {}]
NoCall == [op |-> "none", s |-> 0, get |-> FALSE, oid |-> 0,
           Data |-> NoData, Modified |-> 0]
Idle == [NoCall EXCEPT !.op = "idle"]
\* last.made: the call created the session it returned; last.wrote: it wrote a
\* token to the response; last.db: what its database call met: "none" (no
\* call), "fail" (the database failed), "hit" / "miss" (a document was / was
\* not stored under the id), "dup" (the unique index refused the document).
Nothing == [op |-> "none", r |-> "", s |-> 0, err |-> NoErr, made |-> FALSE,
            wrote |-> FALSE, db |-> "none"]
Returned(op, r, s, err, made, wrote, db) ==
  [op |-> op, r |-> r, s |-> s, err |-> err, made |-> made, wrote |-> wrote, db |-> db]
NoReg == [n \in Names |-> [s |-> 0, e |-> NoErr]]
NoJar == [n \in Names |-> NoToken]
\* hist.terminated: the ids whose document a successful terminating Save removed
\* and no Save has upserted since; hist.news[r][n]: how often Get called New
\* for request r and name n; hist.first[r][n]: the session the first Get
\* returned; hist.saved[n]: the id and values of the session whose Save wrote
\* issued[n]; hist.made: the arguments NewMongoStore was called with and whether
\* CreateIndexes failed.
NoHist == [made |-> [maxAge |-> 0, ensureTTL |-> FALSE, createErr |-> FALSE],
           terminated |-> {},
           news |-> [r \in Reqs |-> [n \in Names |-> 0]],
           first |-> [r \in Reqs |-> [n \in Names |-> 0]],
           saved |-> [n \in Names |-> [ID |-> "", Values |-> EmptyValues]]]

\* ---------------------------------------------------------------- MaxAge
\* MaxAge, line 139: m.Options.MaxAge = age
SetOptionsMaxAge(st, age) == [st EXCEPT !.Options.MaxAge = age]

\* A MaxAge that leaves the codecs as they are.
CodecMaxAgeKept(st, i, age) == st

\* MaxAge, lines 142-146: one iteration of the loop, sc.MaxAge(age) on codec i
SetCodecMaxAge(st, i, age) == [st EXCEPT !.Codecs[i].maxAge = age]

RECURSIVE SetCodecsFrom(_, _, _)
SetCodecsFrom(st, i, age) ==
  IF i > Len(st.Codecs) THEN st
  ELSE SetCodecsFrom(SetCodecMaxAge(st, i, age), i + 1, age)

\* MaxAge run to completion (as NewMongoStore calls it, before the store is shared)
MaxAgeAll(st, age) == SetCodecsFrom(SetOptionsMaxAge(st, age), 1, age)

\* ---------------------------------------------------------------- NewMongoStore
\* time.Second is 10^9 units of time.Duration (nanoseconds); the conversion
\* int32(d) keeps the low 32 bits of d, two's complement. With
\* 10^9 = 1953125 * 2^9 the low 32 bits of maxAge * 10^9 are
\* ((maxAge * 1953125) mod 2^23) * 2^9, computed here without leaving 32 bits.
SecondOdd == 1953125
SecondPow2 == 512
TwoTo23 == 8388608

\* line 55: exp := int32(time.Duration(maxAge) * time.Second)
ExpireAfter(maxAge) ==
  LET q == (maxAge * SecondOdd) % TwoTo23
  IN IF 2 * q >= TwoTo23 THEN (q - TwoTo23) * SecondPow2 ELSE q * SecondPow2

NilStore == [nil |-> TRUE, Options |-> [Path |-> "/", MaxAge |-> 0], Codecs |-> << >>]
NoIndex == [exists |-> FALSE, expireAfter |-> 0, sparse |-> FALSE, unique |-> FALSE]

\* lines 54-62: the index NewMongoStore asks the collection to create
IndexModel(maxAge) ==
  [exists |-> TRUE, expireAfter |-> ExpireAfter(maxAge), sparse |-> TRUE, unique |-> TRUE]

\* A constructor that returns the store although CreateIndexes failed.
NewMongoStoreAnyway(maxAge, ensureTTL, createErr, pairs) ==
  [store |-> MaxAgeAll([nil |-> FALSE,
                        Options |-> [Path |-> "/", MaxAge |-> maxAge],
                        Codecs |-> CodecsFromPairs(pairs)], maxAge),
   index |-> IF ensureTTL /\ ~createErr THEN IndexModel(maxAge) ELSE NoIndex]

\* NewMongoStore(c, maxAge, ensureTTL, keyPairs...): the store it returns and the
\* index the collection has afterwards; createErr = CreateIndexes failed.
NewMongoStore(maxAge, ensureTTL, createErr, pairs) ==
  LET st == MaxAgeAll([nil |-> FALSE,
                       Options |-> [Path |-> "/", MaxAge |-> maxAge],
                       Codecs |-> CodecsFromPairs(pairs)], maxAge)
  IN IF ensureTTL
     THEN IF createErr THEN [store |-> NilStore, index |-> NoIndex]
                       ELSE [store |-> st, index |-> IndexModel(maxAge)]
     ELSE [store |-> st, index |-> NoIndex]

NoDocs == [o \in {} |-> [Data |-> NoData, Modified |-> 0]]

\* CreateIndexes is called, and can fail, only with ensureTTL.
Init ==
  /\ \E maxAge \in Ages, ensureTTL \in BOOLEAN :
       \E createErr \in IF ensureTTL THEN BOOLEAN ELSE {FALSE} :
         LET made == NewMongoStore(maxAge, ensureTTL, createErr, KeyPairs)
         IN /\ store = made.store
            /\ index = made.index
            /\ maxAgeCall = [codec |-> 0, age |-> maxAge]
            /\ hist = [NoHist EXCEPT !.made = [maxAge |-> maxAge,
                                                ensureTTL |-> ensureTTL,
                                                createErr |-> createErr]]
  /\ coll = NoDocs
  /\ now = 0
  /\ nextOid = 1
  /\ issued = NoJar
  /\ cookie = [r \in Reqs |-> NoJar]
  /\ sess = [r \in Reqs |-> << >>]
  /\ reg = [r \in Reqs |-> NoReg]
  /\ resp = [r \in Reqs |-> NoJar]
  /\ call = [r \in Reqs |-> NoCall]
  /\ calls = 0
  /\ last = Nothing

\* ---------------------------------------------------------------- environment
\* No call of a request is waiting for the database.
NoPending == \A r \in Reqs : call[r].op \in {"none", "idle"}

\* The clock advances.
Tick ==
  /\ now < MaxTime
  /\ now' = now + 1
  /\ last' = Nothing
  /\ UNCHANGED << hist, calls, store, index, coll, nextOid, issued, cookie, sess, reg, resp, call,
                  maxAgeCall >>

\* Tokens a client can present under a cookie name: none, a forged one, one of
\* another store, or the one it holds.
Presentable(n) == {NoToken, Forged(n), Foreign(n), issued[n]}

Jars == { jar \in [Names -> UNION { Presentable(n) : n \in Names }] :
            \A n \in Names : jar[n] \in Presentable(n) }

\* A request arrives, carrying its cookies.
StartRequest(r, jar) ==
  /\ ~store.nil
  /\ call[r].op = "none"
  /\ cookie' = [cookie EXCEPT ![r] = jar]
  /\ call' = [call EXCEPT ![r] = Idle]
  /\ last' = Nothing
  /\ UNCHANGED << hist, calls, store, index, coll, now, nextOid, issued, sess, reg, resp, maxAgeCall >>

\* The request is over: its registry and its sessions go with it.
EndRequest(r) ==
  /\ call[r].op = "idle"
  /\ cookie' = [cookie EXCEPT ![r] = NoJar]
  /\ sess' = [sess EXCEPT ![r] = << >>]
  /\ reg' = [reg EXCEPT ![r] = NoReg]
  /\ resp' = [resp EXCEPT ![r] = NoJar]
  /\ call' = [call EXCEPT ![r] = NoCall]
  /\ last' = Nothing
  /\ hist' = [hist EXCEPT !.news[r] = NoHist.news[r], !.first[r] = NoHist.first[r]]
  /\ UNCHANGED << calls, store, index, coll, now, nextOid, issued, maxAgeCall >>

\* The TTL monitor of the database removes a document whose indexed field is
\* older than expireAfterSeconds.
TTLExpire(oid) ==
  /\ index.exists
  /\ oid \in DOMAIN coll
  /\ coll[oid].Modified + index.expireAfter < now
  /\ coll' = [o \in DOMAIN coll \ {oid} |-> coll[o]]
  /\ last' = Nothing
  /\ UNCHANGED << hist, calls, store, index, now, nextOid, issued, cookie, sess, reg, resp, call,
                  maxAgeCall >>

\* ---------------------------------------------------------------- transport
\* TokenGetSeter.GetToken(r, name): the token of the request's cookie, or an error.
GetTokenErr(r, name) == IF cookie[r][name].kind = "none" THEN ErrNoCookie ELSE NoErr
GetToken(r, name) == cookie[r][name]

\* TokenGetSeter.SetToken(w, name, value, options): the response carries value
\* under name; the empty value clears the client's token.
SetToken(w, name, value) == [resp EXCEPT ![w][name] = value]

\* ---------------------------------------------------------------- collection
\* qmgo Collection.Find(_id = oid).One: the document, or ErrNoSuchDocuments.
FindErr(docs, oid) == IF oid \in DOMAIN docs THEN NoErr ELSE ErrNoSuchDocuments

\* A collection whose index is not enforced.
UpsertIdErrNone(docs, idx, oid, doc) == NoErr

\* qmgo Collection.UpsertId: replaces the whole document under oid, or inserts
\* it; a unique index on "modified" refuses a value another document holds.
UpsertIdErr(docs, idx, oid, doc) ==
  IF idx.exists /\ idx.unique
     /\ \E o \in DOMAIN docs : o # oid /\ docs[o].Modified = doc.Modified
  THEN ErrDuplicateKey
  ELSE NoErr

\* An upsert that merges the values of the document into the stored ones.
UpsertIdMerged(docs, oid, doc) ==
  [o \in DOMAIN docs \cup {oid} |->
     IF o # oid THEN docs[o]
     ELSE IF oid \in DOMAIN docs
          THEN [doc EXCEPT !.Data.val = docs[oid].Data.val \cup doc.Data.val]
          ELSE doc]

UpsertId(docs, oid, doc) ==
  [o \in DOMAIN docs \cup {oid} |-> IF o = oid THEN doc ELSE docs[o]]

\* qmgo Collection.RemoveId: DeleteOne by _id; a delete that removed nothing
\* (DeletedCount = 0) is reported as ErrNoSuchDocuments.
RemoveIdErr(docs, oid) == IF oid \in DOMAIN docs THEN NoErr ELSE ErrNoSuchDocuments

RemoveId(docs, oid) == [o \in DOMAIN docs \ {oid} |-> docs[o]]



\* What a call of the database met, whatever the call: the database failed,
\* or a document was or was not stored under oid.
DbMet(docs, oid, dbFail) ==
  IF dbFail THEN "fail" ELSE IF oid \in DOMAIN docs THEN "hit" ELSE "miss"

\* ---------------------------------------------------------------- New, Get
\* A New that hands the store's options struct itself to the session.
NewSessionSharing(st, name) ==
  [name |-> name, ID |-> "", Values |-> EmptyValues,
   Options |-> [Path |-> st.Options.Path, MaxAge |-> st.Options.MaxAge],
   shares |-> TRUE, IsNew |-> TRUE]

\* New, lines 82-90: sessions.NewSession with a copy of the store's options.
\* session.Options points to a struct of its own (line 83): shares tells whether
\* it is the struct m.Options points to.
NewSession(st, name) ==
  [name |-> name, ID |-> "", Values |-> EmptyValues,
   Options |-> [Path |-> st.Options.Path, MaxAge |-> st.Options.MaxAge],
   shares |-> FALSE, IsNew |-> TRUE]

\* A write of MaxAge to the options struct of the store, seen through every
\* pointer to that struct.
SharedMaxAge(ss, age) ==
  IF \A r \in Reqs : \A s \in DOMAIN ss[r] : ~ss[r][s].shares THEN ss
  ELSE [r \in Reqs |->
          [s \in DOMAIN ss[r] |->
             IF ss[r][s].shares THEN [ss[r][s] EXCEPT !.Options.MaxAge = age]
             ELSE ss[r][s]]]

\* A New that returns the error of GetToken.
NewErrOfToken(errToken) == errToken

\* New, line 92: a failed GetToken leaves err nil.
NewErrAfterToken(errToken) == NoErr

\* New, lines 93-94 and 103: a failed DecodeMulti of the token is returned.
NewErrAfterDecode(errDecode) == errDecode

\* A New that returns the error of load.
NewErrOfLoad(errLoad) == errLoad

\* New, lines 95-100: an error of load is replaced by nil.
NewErrAfterLoad(errLoad) == NoErr

\* load, lines 150-157: the id is validated before any query.
LoadIdErr(id) == IF ~IsValidObjectID(id) THEN ErrInvalidId ELSE NoErr

\* load, lines 159-163: find by _id; dbFail = the database call failed.
LoadFindErr(docs, oid, dbFail) == IF dbFail THEN ErrStorage ELSE FindErr(docs, oid)

\* load, lines 165-168: the payload is decoded into session.Values.
LoadDecodeErr(name, data, codecs, t) == DecodeMultiErr(name, data, codecs, t)

\* A New that leaves IsNew as it is after a load.
LoadedStillNew(session, data) ==
  [session EXCEPT !.Values = Deserialize(data.val)]

\* New, lines 96-97, with load, line 165: the loaded session.
Loaded(session, data) ==
  [session EXCEPT !.Values = Deserialize(data.val), !.IsNew = FALSE]

\* A registry that forgets what it is given.
RegisterNothing(registry, op, name, s, err) == registry

\* Registry.Get of gorilla/sessions: a session obtained through Get is kept,
\* with its error, under its name.
Register(registry, op, name, s, err) ==
  IF op = "Get" THEN [registry EXCEPT ![name] = [s |-> s, e |-> err]] ELSE registry

\* A New or Get that created session s returns.
Return(op, r, s, name, err, db, h) ==
  /\ reg' = [reg EXCEPT ![r] = Register(reg[r], op, name, s, err)]
  /\ call' = [call EXCEPT ![r] = Idle]
  /\ last' = Returned(op, r, s, err, TRUE, FALSE, db)
  /\ hist' = IF op = "Get" /\ h.first[r][name] = 0
             THEN [h EXCEPT !.first[r][name] = s]
             ELSE h

OpName(viaGet) == IF viaGet THEN "Get" ELSE "New"

\* New(r, name), up to the query of load: through Get (the registry has no
\* session under name) or called directly.
NewCall(r, name, viaGet) ==
  /\ ~store.nil
  /\ calls < MaxCalls
  /\ calls' = calls + 1
  /\ call[r].op = "idle"
  /\ Len(sess[r]) < MaxSessions
  /\ viaGet => reg[r][name].s = 0
  /\ LET s == Len(sess[r]) + 1
         fresh == NewSession(store, name)
         cook == GetToken(r, name)
         errToken == GetTokenErr(r, name)
         errDecode == DecodeMultiErr(name, cook, store.Codecs, now)
         withId == [fresh EXCEPT !.ID = cook.val]
         counted == IF viaGet THEN [hist EXCEPT !.news[r][name] = @ + 1] ELSE hist
     IN IF errToken # NoErr
        THEN /\ sess' = [sess EXCEPT ![r] = Append(@, fresh)]
             /\ Return(OpName(viaGet), r, s, name, NewErrAfterToken(errToken), "none", counted)
        ELSE IF errDecode # NoErr
        THEN /\ sess' = [sess EXCEPT ![r] = Append(@, fresh)]
             /\ Return(OpName(viaGet), r, s, name, NewErrAfterDecode(errDecode), "none", counted)
        ELSE IF LoadIdErr(withId.ID) # NoErr
        THEN /\ sess' = [sess EXCEPT ![r] = Append(@, withId)]
             /\ Return(OpName(viaGet), r, s, name,
                       NewErrAfterLoad(LoadIdErr(withId.ID)), "none", counted)
        ELSE /\ sess' = [sess EXCEPT ![r] = Append(@, withId)]
             /\ call' = [call EXCEPT ![r] =
                           [NoCall EXCEPT !.op = "load", !.s = s, !.get = viaGet,
                                          !.oid = ObjectIDFromHex(withId.ID)]]
             /\ last' = Nothing
             /\ reg' = reg
             /\ hist' = counted
  /\ UNCHANGED << store, index, coll, now, nextOid, issued, cookie, resp, maxAgeCall >>

\* New, the rest of load: the query returns, the payload is decoded.
NewLoad(r, dbFail) ==
  /\ call[r].op = "load"
  /\ LET s == call[r].s
         name == sess[r][s].name
         errFind == LoadFindErr(coll, call[r].oid, dbFail)
         data == coll[call[r].oid].Data
         errLoad == IF errFind # NoErr THEN errFind
                    ELSE LoadDecodeErr(name, data, store.Codecs, now)
     IN /\ sess' = IF errLoad = NoErr
                   THEN [sess EXCEPT ![r][s] = Loaded(@, data)]
                   ELSE sess
        /\ Return(OpName(call[r].get), r, s, name, NewErrAfterLoad(errLoad),
                  DbMet(coll, call[r].oid, dbFail), hist)
  /\ UNCHANGED << store, index, coll, now, nextOid, issued, cookie, resp, maxAgeCall,
                  calls >>

\* Get, line 76: sessions.GetRegistry(r).Get(m, name) with the session registered.
GetRegistered(r, name) ==
  /\ ~store.nil
  /\ calls < MaxCalls
  /\ calls' = calls + 1
  /\ call[r].op = "idle"
  /\ reg[r][name].s # 0
  /\ last' = Returned("Get", r, reg[r][name].s, reg[r][name].e, FALSE, FALSE, "none")
  /\ UNCHANGED << store, index, coll, now, nextOid, issued, cookie, sess, reg, resp,
                  call, maxAgeCall, hist >>

\* Get(r, name)
Get(r, name) == GetRegistered(r, name) \/ NewCall(r, name, TRUE)

\* New(r, name), called directly
New(r, name) == NewCall(r, name, FALSE)

\* ---------------------------------------------------------------- the caller
\* Between New and Save the handler of the request changes its session: it
\* leaves it as it is, gives it new values, or sets Options.MaxAge = -1 to have
\* the session terminated (a write through session.Options).
Changes ==
  {[do |-> "keep", values |-> EmptyValues], [do |-> "terminate", values |-> EmptyValues]}
    \cup { [do |-> "set", values |-> v] : v \in CallerValues }

Changed(session, ch) ==
  IF ch.do = "set" THEN [session EXCEPT !.Values = ch.values]
  ELSE IF ch.do = "terminate" THEN [session EXCEPT !.Options.MaxAge = -1]
  ELSE session

\* ---------------------------------------------------------------- Save
\* Save, line 109: the session is to be terminated.
SaveTerminates(session) == session.Options.MaxAge < 0

\* A Save that mints an id whatever the session's id is.
MintIdAlways(id, fresh) == Hex(fresh)

\* Save, lines 117-119: an empty id is replaced by a newly minted one.
MintId(id, fresh) == IF id = "" THEN Hex(fresh) ELSE id

\* A delete that does not look at the id.
DeleteIdUnchecked(id) == NoErr

\* delete, lines 214-221: the id is validated before any query.
DeleteIdErr(id) == IF ~IsValidObjectID(id) THEN ErrInvalidId ELSE NoErr

\* A delete that swallows the error of RemoveId.
DeleteErrDropped(errRemove) == NoErr

\* delete, line 223, and Save, lines 110-112: RemoveId's error is returned as it is.
DeleteErr(errRemove) == errRemove

\* An upsert that accepts any "modified" value.
UpsertModifiedUnchecked(values) == NoErr

\* upsert, lines 178-186: modified is the session's own "modified" value, which
\* must be a time.Time, and the current time without one.
UpsertModifiedErr(values) ==
  IF "modified" \in DOMAIN values /\ values["modified"].typ # "time.Time"
  THEN ErrInvalidModified
  ELSE NoErr

\* An upsert that always stamps the current time.
UpsertModifiedNow(values, t) == t

UpsertModified(values, t) ==
  IF "modified" \in DOMAIN values THEN values["modified"].v ELSE t

\* upsert, lines 188-192: the values are encoded.
UpsertEncodeErr(values, codecs) ==
  IF Len(codecs) = 0 THEN ErrNoCodecs
  ELSE IF ~GobEncodable(values) THEN ErrEncode
  ELSE NoErr

\* An upsert that looks at the "modified" value before the id.
UpsertPrepErrModifiedFirst(id, values, codecs) ==
  IF UpsertModifiedErr(values) # NoErr THEN UpsertModifiedErr(values)
  ELSE IF ~IsValidObjectID(id) THEN ErrInvalidId
  ELSE UpsertEncodeErr(values, codecs)

\* upsert, lines 174-197: what fails before the database is called.
UpsertPrepErr(id, values, codecs) ==
  IF ~IsValidObjectID(id) THEN ErrInvalidId
  ELSE IF UpsertModifiedErr(values) # NoErr THEN UpsertModifiedErr(values)
  ELSE UpsertEncodeErr(values, codecs)

\* upsert, lines 199-203: the document handed to UpsertId.
UpsertDoc(name, values, codecs, t) ==
  [Data |-> EncodeMulti(name, Serialize(values), codecs, t),
   Modified |-> UpsertModified(values, t)]

\* An upsert that swallows the error of UpsertId.
UpsertErrDropped(errUpsertId) == NoErr

\* upsert, lines 205-208, and Save, lines 121-123: UpsertId's error is returned
\* as it is.
UpsertErr(errUpsertId) == errUpsertId

\* A Save that encodes the session's name into the token.
SaveTokenOfName(name, id, codecs, t) == EncodeMulti(name, name, codecs, t)

\* Save, lines 125-131: the token written after the upsert encodes the id.
SaveToken(name, id, codecs, t) == EncodeMulti(name, id, codecs, t)

\* Save(r, w, session), up to the call of the database; ch is what the caller
\* did to the session since the last call.
SaveCall(r, s, ch) ==
  /\ ~store.nil
  /\ calls < MaxCalls
  /\ calls' = calls + 1
  /\ call[r].op = "idle"
  /\ s \in DOMAIN sess[r]
  /\ LET session == Changed(sess[r][s], ch)
         through == ch.do = "terminate" /\ sess[r][s].shares
         seen == IF through THEN SharedMaxAge(sess, -1) ELSE sess
     IN
     /\ store' = IF through THEN SetOptionsMaxAge(store, -1) ELSE store
     /\ IF SaveTerminates(session)
        THEN /\ sess' = [seen EXCEPT ![r][s] = session]
             /\ nextOid' = nextOid
             /\ IF DeleteIdErr(session.ID) # NoErr
                THEN /\ call' = call
                     /\ last' = Returned("Save", r, s, DeleteIdErr(session.ID),
                                         FALSE, FALSE, "none")
                ELSE /\ call' = [call EXCEPT ![r] =
                                   [NoCall EXCEPT !.op = "remove", !.s = s,
                                                  !.oid = ObjectIDFromHex(session.ID)]]
                     /\ last' = Nothing
        ELSE /\ session.ID = "" => nextOid <= MaxIds
             /\ LET id == MintId(session.ID, nextOid)
                    err == UpsertPrepErr(id, session.Values, store.Codecs)
                IN /\ sess' = [seen EXCEPT ![r][s] = [session EXCEPT !.ID = id]]
                   /\ nextOid' = IF session.ID = "" THEN nextOid + 1 ELSE nextOid
                   /\ IF err # NoErr
                      THEN /\ call' = call
                           /\ last' = Returned("Save", r, s, err, FALSE, FALSE, "none")
                      ELSE LET doc == UpsertDoc(session.name, session.Values, store.Codecs, now)
                           IN /\ call' = [call EXCEPT ![r] =
                                            [NoCall EXCEPT !.op = "upsert", !.s = s,
                                                           !.oid = ObjectIDFromHex(id),
                                                           !.Data = doc.Data,
                                                           !.Modified = doc.Modified]]
                              /\ last' = Nothing
  /\ UNCHANGED << index, coll, now, issued, cookie, reg, resp, maxAgeCall, hist >>

\* Save on the termination path: RemoveId returns, the token is cleared.
SaveRemove(r, dbFail) ==
  /\ call[r].op = "remove"
  /\ LET s == call[r].s
         oid == call[r].oid
         errRemove == IF dbFail THEN ErrStorage ELSE RemoveIdErr(coll, oid)
         err == DeleteErr(errRemove)
     IN /\ coll' = IF errRemove = NoErr THEN RemoveId(coll, oid) ELSE coll
        /\ IF err # NoErr
           THEN /\ resp' = resp
                /\ hist' = hist
                /\ last' = Returned("Save", r, s, err, FALSE, FALSE, DbMet(coll, oid, dbFail))
           ELSE /\ resp' = SetToken(r, sess[r][s].name, EmptyToken)
                /\ hist' = [hist EXCEPT !.terminated = @ \cup {oid}]
                /\ last' = Returned("Save", r, s, NoErr, FALSE, TRUE, DbMet(coll, oid, dbFail))
  /\ call' = [call EXCEPT ![r] = Idle]
  /\ UNCHANGED << store, index, now, nextOid, issued, cookie, sess, reg, maxAgeCall,
                  calls >>

\* Save on the persisting path: UpsertId returns, the id is encoded into the
\* token and the token is written.
SaveUpsert(r, dbFail) ==
  /\ call[r].op = "upsert"
  /\ LET s == call[r].s
         oid == call[r].oid
         name == sess[r][s].name
         doc == [Data |-> call[r].Data, Modified |-> call[r].Modified]
         errUpsertId == IF dbFail THEN ErrStorage ELSE UpsertIdErr(coll, index, oid, doc)
         err == UpsertErr(errUpsertId)
         tok == SaveToken(name, sess[r][s].ID, store.Codecs, now)
         met == IF errUpsertId = ErrDuplicateKey THEN "dup" ELSE DbMet(coll, oid, dbFail)
     IN /\ coll' = IF errUpsertId = NoErr THEN UpsertId(coll, oid, doc) ELSE coll
        /\ IF err # NoErr
           THEN /\ resp' = resp
                /\ issued' = issued
                /\ hist' = hist
                /\ last' = Returned("Save", r, s, err, FALSE, FALSE, met)
           ELSE /\ resp' = SetToken(r, name, tok)
                /\ issued' = [issued EXCEPT ![name] = tok]
                /\ hist' = [hist EXCEPT !.terminated = @ \ {oid},
                                        !.saved[name] = [ID |-> sess[r][s].ID,
                                                          Values |-> sess[r][s].Values]]
                /\ last' = Returned("Save", r, s, NoErr, FALSE, TRUE, met)
  /\ call' = [call EXCEPT ![r] = Idle]
  /\ UNCHANGED << store, index, now, nextOid, cookie, sess, reg, maxAgeCall, calls >>

\* ---------------------------------------------------------------- MaxAge (shared store)
\* MaxAge(age) on the store in use, line 139; the loop over the codecs follows.
MaxAgeCall(age) ==
  /\ ~store.nil
  /\ calls < MaxCalls
  /\ calls' = calls + 1
  /\ maxAgeCall.codec = 0
  /\ store' = SetOptionsMaxAge(store, age)
  /\ sess' = SharedMaxAge(sess, age)
  /\ maxAgeCall' = [codec |-> IF Len(store.Codecs) = 0 THEN 0 ELSE 1, age |-> age]
  /\ last' = IF Len(store.Codecs) = 0
             THEN Returned("MaxAge", "", 0, NoErr, FALSE, FALSE, "none") ELSE Nothing
  /\ UNCHANGED << index, coll, now, nextOid, issued, cookie, reg, resp, call, hist >>

\* MaxAge, lines 142-146: the next iteration of the loop.
MaxAgeCodec ==
  /\ maxAgeCall.codec # 0
  /\ store' = SetCodecMaxAge(store, maxAgeCall.codec, maxAgeCall.age)
  /\ maxAgeCall' = [maxAgeCall EXCEPT !.codec =
                      IF maxAgeCall.codec < Len(store.Codecs) THEN @ + 1 ELSE 0]
  /\ last' = IF maxAgeCall.codec < Len(store.Codecs)
             THEN Nothing ELSE Returned("MaxAge", "", 0, NoErr, FALSE, FALSE, "none")
  /\ UNCHANGED << index, coll, now, nextOid, issued, cookie, sess, reg, resp, call,
                  calls, hist >>

\* ---------------------------------------------------------------- specifications
\* No MaxAge call is in its loop.
NoMaxAge == maxAgeCall.codec = 0

\* No New waits for its query to return.
NoLoad == \A r \in Reqs : call[r].op # "load"

\* Requests served one after the other, every call running to its return
\* before the next one is made; time passes while a Save waits for the
\* database. The store keeps the max-age it was constructed with.
Next ==
  \/ NoLoad /\ Tick
  \/ NoPending /\ \E jar \in Jars : StartRequest("r1", jar)
  \/ NoPending /\ EndRequest("r1")
  \/ NoPending /\ \E oid \in 1..MaxIds : TTLExpire(oid)
  \/ \E n \in Names : Get("r1", n)
  \/ \E n \in Names : New("r1", n)
  \/ \E dbFail \in BOOLEAN : NewLoad("r1", dbFail)
  \/ \E s \in 1..MaxSessions, ch \in Changes : SaveCall("r1", s, ch)
  \/ \E dbFail \in BOOLEAN : SaveRemove("r1", dbFail)
  \/ \E dbFail \in BOOLEAN : SaveUpsert("r1", dbFail)

Spec == Init /\ [][Next]_vars

\* Two requests served concurrently: their calls interleave at every database
\* operation. Both carry a token a client kept from an earlier run of the
\* service, signed with the store's key, whose record is gone.
StaleOid == MaxIds + 1
Stale(name) == Signed(name, KeyPairs[1], 0, Hex(StaleOid))
StaleJar == [n \in Names |-> Stale(n)]

NextRace ==
  \/ Tick
  \/ \E r \in Reqs : StartRequest(r, StaleJar)
  \/ \E r \in Reqs, n \in Names : Get(r, n)
  \/ \E r \in Reqs, dbFail \in BOOLEAN : NewLoad(r, dbFail)
  \/ \E r \in Reqs, s \in 1..MaxSessions, ch \in Changes : SaveCall(r, s, ch)
  \/ \E r \in Reqs, dbFail \in BOOLEAN : SaveRemove(r, dbFail)
  \/ \E r \in Reqs, dbFail \in BOOLEAN : SaveUpsert(r, dbFail)

SpecRace == Init /\ [][NextRace]_vars

\* Requests served one after the other, and MaxAge called on the store between
\* their calls: every call, MaxAge too, runs to its return before the next one
\* is made.
NextConfig ==
  \/ NoPending /\ NoMaxAge /\ Tick
  \/ NoPending /\ NoMaxAge /\ \E jar \in Jars : StartRequest("r1", jar)
  \/ NoPending /\ NoMaxAge /\ EndRequest("r1")
  \/ NoMaxAge /\ \E n \in Names : Get("r1", n)
  \/ NoMaxAge /\ \E n \in Names : New("r1", n)
  \/ \E dbFail \in BOOLEAN : NewLoad("r1", dbFail)
  \/ NoMaxAge /\ \E s \in 1..MaxSessions, ch \in Changes : SaveCall("r1", s, ch)
  \/ \E dbFail \in BOOLEAN : SaveRemove("r1", dbFail)
  \/ \E dbFail \in BOOLEAN : SaveUpsert("r1", dbFail)
  \/ NoPending /\ \E age \in Ages : MaxAgeCall(age)
  \/ MaxAgeCodec

SpecConfig == Init /\ [][NextConfig]_vars

\* MaxAge called on the store while a request is served: MaxAge takes no lock,
\* so its assignment and every iteration of its loop interleave with the calls
\* of the request.
NextMaxAge ==
  \/ Tick
  \/ \E jar \in Jars \cup {StaleJar} : StartRequest("r1", jar)
  \/ \E n \in Names : Get("r1", n)
  \/ \E dbFail \in BOOLEAN : NewLoad("r1", dbFail)
  \/ \E s \in 1..MaxSessions, ch \in Changes : SaveCall("r1", s, ch)
  \/ \E dbFail \in BOOLEAN : SaveRemove("r1", dbFail)
  \/ \E dbFail \in BOOLEAN : SaveUpsert("r1", dbFail)
  \/ \E age \in Ages : MaxAgeCall(age)
  \/ MaxAgeCodec

SpecMaxAge == Init /\ [][NextMaxAge]_vars

\* ================================================================ claims
\* The session the last call returned or saved, its name, and the token the
\* request carries under that name.
LastSession == sess[last.r][last.s]
LastName == LastSession.name
LastCookie == cookie[last.r][LastName]
LastNew == last.op \in {"New", "Get"} /\ last.made
LastSave == last.op = "Save"
LastPersist == LastSave /\ ~SaveTerminates(LastSession)
LastOid == ObjectIDFromHex(LastSession.ID)

\* The step at which the lookup of the last New ended, from the request, the
\* collection and the clock.
LookupStep ==
  IF LastCookie.kind = "none" THEN "no-token"
  ELSE IF DecodeMultiErr(LastName, LastCookie, store.Codecs, now) # NoErr
  THEN "token-decode"
  ELSE IF ~IsValidObjectID(LastCookie.val) THEN "invalid-id"
  ELSE IF last.db = "fail" THEN "storage"
  ELSE IF ObjectIDFromHex(LastCookie.val) \notin DOMAIN coll THEN "not-found"
  ELSE IF DecodeMultiErr(LastName, coll[ObjectIDFromHex(LastCookie.val)].Data,
                         store.Codecs, now) # NoErr
  THEN "payload-decode"
  ELSE "found"

\* C1 as claimed: whenever the lookup of New fails at any step, New returns no
\* error and a session with IsNew = true and empty values.
C1_LookupNeverAnError ==
  (LastNew /\ LookupStep # "found")
    => /\ last.err = NoErr
       /\ LastSession.IsNew
       /\ LastSession.Values = EmptyValues

\* C1, amended: whenever the lookup of New fails, the session has IsNew = true
\* and empty values; the error is nil when there is no token, no record or no
\* decodable payload, and it is the decode error when the token fails to decode.
C1_LookupFailure ==
  (LastNew /\ LookupStep # "found")
    => /\ LastSession.IsNew
       /\ LastSession.Values = EmptyValues
       /\ last.err = IF LookupStep = "token-decode"
                     THEN DecodeMultiErr(LastName, LastCookie, store.Codecs, now)
                     ELSE NoErr

C1_Witness == LastNew /\ LookupStep = "payload-decode"

\* C2: a New on a request carrying the token a successful Save wrote, before
\* expiry and with the record still the one that Save stored, returns a session
\* with IsNew = false, the id and the values of the saved session.
C2_RoundTrip ==
  (LastNew /\ LastCookie.kind = "signed" /\ LastCookie = issued[LastName]
     /\ LookupStep = "found")
    => /\ ~LastSession.IsNew
       /\ LastSession.ID = hist.saved[LastName].ID
       /\ LastSession.Values = hist.saved[LastName].Values

C2_Witness ==
  /\ LastNew /\ LastCookie.kind = "signed" /\ LastCookie = issued[LastName]
  /\ LookupStep = "found"
  /\ LastSession.Values # EmptyValues

\* C3: after a successful terminating Save the store holds no record under the
\* id and the token was cleared; until a Save upserts the id again, every New
\* without a token or with a token of that id returns IsNew = true and empty values.
C3_Termination ==
  /\ \A oid \in hist.terminated : oid \notin DOMAIN coll
  /\ (LastSave /\ SaveTerminates(LastSession) /\ last.err = NoErr)
       => /\ LastOid \in hist.terminated
          /\ last.wrote
          /\ resp[last.r][LastName] = EmptyToken
  /\ (LastNew /\ (LastCookie.kind = "none"
                  \/ (LastCookie.kind = "signed" /\ IsValidObjectID(LastCookie.val)
                      /\ ObjectIDFromHex(LastCookie.val) \in hist.terminated)))
       => /\ LastSession.IsNew
          /\ LastSession.Values = EmptyValues

C3_Witness ==
  /\ LastNew /\ LastCookie.kind = "signed" /\ IsValidObjectID(LastCookie.val)
  /\ ObjectIDFromHex(LastCookie.val) \in hist.terminated
  /\ DecodeMultiErr(LastName, LastCookie, store.Codecs, now) = NoErr

\* C4: on the persisting path Save returns success only with the record stored
\* under session.ID and holding the encoding of the session's values; when the
\* encoding or the upsert fails, Save returns that error and writes no token.
C4_FailedSaveIsAnError ==
  LastPersist =>
    /\ last.err = NoErr =>
         /\ last.db \in {"hit", "miss"}
         /\ last.wrote
         /\ LastOid \in DOMAIN coll
         /\ coll[LastOid].Data.kind = "signed"
         /\ coll[LastOid].Data.name = LastName
         /\ coll[LastOid].Data.val = Serialize(LastSession.Values)
    /\ last.err # NoErr => ~last.wrote
    /\ last.db = "fail" => last.err = ErrStorage
    /\ last.db = "dup" => last.err = ErrDuplicateKey
    /\ (~GobEncodable(LastSession.Values) /\ IsValidObjectID(LastSession.ID)
        /\ UpsertModifiedErr(LastSession.Values) = NoErr)
         => last.err = ErrEncode /\ last.db = "none"

C4_Witness == LastPersist /\ last.db = "fail" /\ last.err = ErrStorage

\* C5: within a request and for each name, Get calls New at most once and every
\* Get returns the session the first Get returned; a direct New returns a fresh
\* session that is not registered.
C5_Registry ==
  /\ \A r \in Reqs, n \in Names : hist.news[r][n] <= 1
  /\ last.op = "Get"
       => /\ last.s = hist.first[last.r][LastName]
          /\ reg[last.r][LastName].s = last.s
          /\ reg[last.r][LastName].e = last.err
  /\ last.op = "New"
       => /\ last.made
          /\ last.s = Len(sess[last.r])
          /\ \A n \in Names : reg[last.r][n].s # last.s

C5_Witness == last.op = "Get" /\ ~last.made /\ Len(sess[last.r]) > 1

\* C6: a successful Save leaves under the id exactly its own document, whatever
\* another request stored there before or while it ran: the record after two
\* racing Saves is the whole document of the upsert that ran last, and no record
\* ever mixes the fields of two Saves.
C6_LastWriteWins ==
  /\ (LastPersist /\ last.err = NoErr)
       => /\ coll[LastOid].Data.val = Serialize(LastSession.Values)
          /\ Deserialize(coll[LastOid].Data.val) = LastSession.Values
          /\ coll[LastOid].Modified =
               UpsertModified(LastSession.Values, coll[LastOid].Data.ts)
  /\ \A oid \in DOMAIN coll :
       coll[oid].Modified =
         UpsertModified(Deserialize(coll[oid].Data.val), coll[oid].Data.ts)

\* Both requests saved the same id with different values and both have
\* returned; the Save that stored last had encoded its document before the
\* other one wrote its token.
C6_Witness ==
  /\ LastPersist /\ last.err = NoErr /\ last.db = "hit"
  /\ \E r \in Reqs \ {last.r} : \E s \in DOMAIN sess[r] :
       /\ sess[r][s].ID = LastSession.ID
       /\ sess[r][s].Values # LastSession.Values
       /\ sess[r][s].Values # EmptyValues
       /\ call[r].op = "idle"
       /\ resp[r][LastName].kind = "signed"
       /\ resp[r][LastName].val = LastSession.ID
       /\ coll[LastOid].Data.ts < resp[r][LastName].ts

\* C7 as claimed: a terminating Save for a session whose record is already
\* absent returns success and clears the token.
C7_IdempotentDelete ==
  (LastSave /\ SaveTerminates(LastSession) /\ last.db = "miss")
    => /\ last.err = NoErr
       /\ resp[last.r][LastName] = EmptyToken

\* C8 as claimed: the modified value stored under an id never decreases.
C8_ModifiedMonotonic ==
  [][\A oid \in DOMAIN coll \cap DOMAIN coll' :
       coll'[oid].Modified >= coll[oid].Modified]_vars

\* C8, amended: a successful Save stores as modified the session's own
\* "modified" value when it has one, whatever that value, and otherwise the time
\* at which the Save encoded the payload.
C8_ModifiedSource ==
  (LastPersist /\ last.err = NoErr)
    => /\ coll[LastOid].Modified =
            IF "modified" \in DOMAIN LastSession.Values
            THEN LastSession.Values["modified"].v
            ELSE coll[LastOid].Data.ts
       /\ coll[LastOid].Data.ts <= now

C8_Witness ==
  /\ LastPersist /\ last.err = NoErr
  /\ "modified" \in DOMAIN LastSession.Values
  /\ coll[LastOid].Modified < coll[LastOid].Data.ts

\* C9: with a "modified" value that is no timestamp, Save on the persisting
\* path returns an error, calls no upsert, leaves the records and the response
\* as they are, and stores no coerced value.
CorruptModified(session) ==
  "modified" \in DOMAIN session.Values
    /\ session.Values["modified"].typ # "time.Time"

C9_CorruptModified ==
  [][(last'.op = "Save" /\ ~SaveTerminates(sess'[last'.r][last'.s])
        /\ CorruptModified(sess'[last'.r][last'.s]))
       => /\ last'.err # NoErr
          /\ IsValidObjectID(sess'[last'.r][last'.s].ID) => last'.err = ErrInvalidModified
          /\ last'.db = "none"
          /\ ~last'.wrote
          /\ coll' = coll
          /\ resp' = resp
          /\ issued' = issued
          /\ call'[last'.r].op = "idle"]_vars

C9_Witness ==
  LastPersist /\ CorruptModified(LastSession) /\ last.err = ErrInvalidModified

\* C10: after construction and after every completed MaxAge(age) the store's
\* default max-age and the max-age of every codec equal age, and a session New
\* creates afterwards has maxAge = age.
C10_MaxAgeInSync ==
  (~store.nil /\ NoMaxAge)
    => /\ store.Options.MaxAge = maxAgeCall.age
       /\ \A i \in DOMAIN store.Codecs : store.Codecs[i].maxAge = maxAgeCall.age
       /\ LastNew => LastSession.Options.MaxAge = maxAgeCall.age

C10_Witness ==
  /\ LastNew /\ index.exists /\ ExpireAfter(LastSession.Options.MaxAge) # index.expireAfter
  /\ store.Codecs[2].maxAge = LastSession.Options.MaxAge

\* C11 as claimed: constructed with ensureTTL = true, the store requests an
\* index on modified that is sparse and unique and whose expire-after-seconds
\* value equals maxAge.
C11_ExpireAfterIsMaxAge ==
  (hist.made.ensureTTL /\ ~hist.made.createErr)
    => /\ index.exists /\ index.sparse /\ index.unique
       /\ index.expireAfter = hist.made.maxAge

\* C12: NewMongoStore returns nil exactly when ensureTTL is true and the index
\* creation failed, and no call ever runs on that store; with ensureTTL false no
\* index is requested and a store is returned.
C12_NilOnIndexFailure ==
  /\ store.nil <=> (hist.made.ensureTTL /\ hist.made.createErr)
  /\ store.nil
       => /\ calls = 0
          /\ ~index.exists
          /\ coll = NoDocs
          /\ last = Nothing
          /\ \A r \in Reqs : sess[r] = << >> /\ call[r] = NoCall
  /\ ~hist.made.ensureTTL => (~index.exists /\ ~store.nil)
  /\ index.exists <=> (hist.made.ensureTTL /\ ~hist.made.createErr)

C12_Witness == store.nil /\ hist.made.ensureTTL /\ hist.made.createErr

\* C13: every non-empty token Save writes to a response encodes the session's id
\* and nothing else, and it is written in the step in which the upsert of the
\* record under that id succeeded.
C13_TokenAfterUpsert ==
  [][\A r \in Reqs, n \in Names :
       (resp'[r][n] # resp[r][n] /\ resp'[r][n].kind = "signed")
         => /\ call[r].op = "upsert"
            /\ sess[r][call[r].s].name = n
            /\ resp'[r][n].name = n
            /\ resp'[r][n].val = sess[r][call[r].s].ID
            /\ IsValidObjectID(resp'[r][n].val)
            /\ ObjectIDFromHex(resp'[r][n].val) = call[r].oid
            /\ call[r].oid \in DOMAIN coll'
            /\ coll'[call[r].oid] = [Data |-> call[r].Data, Modified |-> call[r].Modified]
            /\ last'.op = "Save" /\ last'.err = NoErr /\ last'.db \in {"hit", "miss"}
            /\ issued'[n] = resp'[r][n]]_vars

C13_Witness ==
  /\ LastPersist /\ last.err = NoErr /\ last.db = "hit"
  /\ resp[last.r][LastName].kind = "signed"
  /\ resp[last.r][LastName].val = LastSession.ID
  /\ resp[last.r][LastName].ts > coll[LastOid].Data.ts

\* C14: a non-empty session id never changes; an empty one is replaced, by a Save
\* on the persisting path only, with a newly minted well-formed id; every upsert
\* and delete of a session uses the session's id.
C14_IdImmutable ==
  [][\A r \in Reqs :
       /\ \A s \in DOMAIN sess[r] \cap DOMAIN sess'[r] :
            /\ sess[r][s].ID # "" => sess'[r][s].ID = sess[r][s].ID
            /\ (sess[r][s].ID = "" /\ sess'[r][s].ID # "")
                 => /\ sess'[r][s].ID = Hex(nextOid)
                    /\ IsValidObjectID(sess'[r][s].ID)
                    /\ nextOid' = nextOid + 1
                    /\ nextOid \notin DOMAIN coll
                    /\ ~SaveTerminates(sess'[r][s])
       /\ call'[r].op \in {"upsert", "remove"}
            => call'[r].oid = ObjectIDFromHex(sess'[r][call'[r].s].ID)]_vars

\* A session whose id New took from a token whose record was gone is saved
\* under that id.
C14_Witness ==
  /\ LastPersist /\ last.err = NoErr /\ last.db = "miss"
  /\ LastSession.IsNew
  /\ LastCookie.kind = "signed"
  /\ LastCookie.val = LastSession.ID

\* C15: a call of the database is made only for a well-formed id; a Save of a
\* session whose id is not well formed returns ErrInvalidId before anything
\* else and calls no upsert or remove, and a New whose token carries such an id
\* calls no find.
C15_InvalidIdStopsEarly ==
  /\ \A r \in Reqs :
       call[r].op \in {"load", "upsert", "remove"}
         => /\ IsValidObjectID(sess[r][call[r].s].ID)
            /\ Hex(call[r].oid) = sess[r][call[r].s].ID
  /\ (LastSave /\ ~IsValidObjectID(LastSession.ID))
       => /\ last.err = ErrInvalidId
          /\ last.db = "none"
          /\ ~last.wrote
  /\ (LastNew /\ ~IsValidObjectID(LastSession.ID))
       => /\ last.db = "none"
          /\ LastSession.IsNew
          /\ LastSession.Values = EmptyValues

C15_Witness ==
  /\ LastPersist /\ LastSession.ID = BadId /\ CorruptModified(LastSession)
  /\ last.err = ErrInvalidId

\* C16 as claimed: no New or Save that runs while MaxAge is being called sees
\* the store's default max-age differ from the max-age of a codec, or two
\* codecs with different max-ages.
C16_MaxAgeAtomic ==
  ((LastNew \/ LastSave) /\ ~store.nil)
    => \A i \in DOMAIN store.Codecs : store.Codecs[i].maxAge = store.Options.MaxAge

\* C17: New returns an error exactly when the request carries a token that fails
\* to decode into an id; the error is that decode error and comes with a session
\* that has IsNew = true and empty values; every other failure yields nil.
C17_OnlyTokenDecodeError ==
  LastNew =>
    /\ last.err # NoErr <=> LookupStep = "token-decode"
    /\ last.err # NoErr
         => /\ last.err = DecodeMultiErr(LastName, LastCookie, store.Codecs, now)
            /\ last.err \in {ErrDecode, ErrExpired}
            /\ last.db = "none"
            /\ LastSession.IsNew
            /\ LastSession.Values = EmptyValues
            /\ LastSession.ID = ""

\* The token the store issued has expired.
C17_Witness ==
  /\ LastNew /\ last.err # NoErr
  /\ LastCookie.kind = "signed" /\ LastCookie = issued[LastName]
  /\ CodecDecodeErr(store.Codecs[1], LastName, LastCookie, now) = ErrExpired

\* C19: a terminating Save of a session whose id is empty returns ErrInvalidId,
\* calls no remove and writes nothing to the response.
C19_TerminateUnsaved ==
  (LastSave /\ SaveTerminates(LastSession) /\ LastSession.ID = "")
    => /\ last.err = ErrInvalidId
       /\ last.db = "none"
       /\ ~last.wrote
       /\ call[last.r].op = "idle"

C19_Witness ==
  /\ LastSave /\ SaveTerminates(LastSession) /\ LastSession.ID = ""
  /\ LastSession.IsNew /\ LastCookie.kind = "none"

\* C20 as claimed: a Save on the persisting path whose own id and values are
\* valid and whose database call does not fail succeeds and stores its values,
\* whatever is stored under other ids.
C20_Independent ==
  (LastPersist /\ last.db \notin {"none", "fail"})
    => /\ last.err = NoErr
       /\ LastOid \in DOMAIN coll
       /\ coll[LastOid].Data.val = Serialize(LastSession.Values)

\* C20, amended: the records under other ids bear on a Save through the unique
\* index only: with the index, a Save whose modified value another id's record
\* holds is refused with the duplicate-key error, stores nothing and writes no
\* token, and no two records ever hold the same modified value; every other
\* Save that reaches a working database succeeds and stores its values.
C20_UniqueModified ==
  /\ (index.exists /\ index.unique)
       => \A o1 \in DOMAIN coll, o2 \in DOMAIN coll :
            o1 # o2 => coll[o1].Modified # coll[o2].Modified
  /\ ~index.exists => last.db # "dup"
  /\ (LastPersist /\ last.db = "dup")
       => /\ last.err = ErrDuplicateKey
          /\ ~last.wrote
          /\ DOMAIN coll \ {LastOid} # {}
          /\ "modified" \in DOMAIN LastSession.Values
               => \E o \in DOMAIN coll \ {LastOid} :
                    coll[o].Modified = LastSession.Values["modified"].v
  /\ (LastPersist /\ last.db \in {"hit", "miss"})
       => /\ last.err = NoErr
          /\ coll[LastOid].Data.val = Serialize(LastSession.Values)

\* Two sessions saved at the same time: the second one is refused.
C20_Witness ==
  /\ LastPersist /\ last.db = "dup"
  /\ "modified" \notin DOMAIN LastSession.Values
  /\ LastOid \notin DOMAIN coll

\* C18: New gives the session the store's default options as they are at the
\* call; a change of a session's options changes neither the store's defaults
\* nor the options of another session, and a MaxAge call on the store changes
\* the options of no session.
C18_OptionsCopied ==
  [][\A r \in Reqs :
       /\ Len(sess'[r]) = Len(sess[r]) + 1
            => /\ sess'[r][Len(sess'[r])].Options = store.Options
               /\ store' = store
       /\ \A s \in DOMAIN sess[r] \cap DOMAIN sess'[r] :
            /\ store'.Options # store.Options
                 => sess'[r][s].Options = sess[r][s].Options
            /\ sess'[r][s].Options # sess[r][s].Options
                 => /\ store' = store
                    /\ \A r2 \in Reqs : \A s2 \in DOMAIN sess[r2] \cap DOMAIN sess'[r2] :
                         << r2, s2 >> # << r, s >>
                           => sess'[r2][s2].Options = sess[r2][s2].Options]_vars

\* One session was set to terminate, the store's default was changed after the
\* other one was created, and the other one has kept its options.
C18_Witness ==
  \E r \in Reqs : \E s1 \in DOMAIN sess[r], s2 \in DOMAIN sess[r] :
    /\ sess[r][s1].Options.MaxAge = -1
    /\ sess[r][s2].Options.MaxAge >= 0
    /\ store.Options.MaxAge >= 0
    /\ sess[r][s2].Options.MaxAge # store.Options.MaxAge
    /\ last.op = "MaxAge"

====
